---- MODULE Spec2Model ----
(***************************************************************************)
(* A model of afqinsight/transform.py: the label-set group algebra         *)
(* (select_group, select_groups, remove_group, remove_groups,              *)
(* shuffle_group), multicol2sets, beta_hat_by_groups and                   *)
(* AFQFeatureTransformer.transform.                                        *)
(*                                                                         *)
(* Conventions.                                                            *)
(*  - A Python str is a sequence of words (the words are joined by single  *)
(*    spaces): "Left Cingulum" is <<"Left", "Cingulum">>.                  *)
(*  - A label is a tagged value: <<"str", words>> or <<"int", n>>, so that *)
(*    the integer 5 and the string "5" are different labels, as in Python. *)
(*  - An ndarray is [shape |-> <<n0, n1, ...>>, flat |-> its elements in   *)
(*    C order].                                                            *)
(*  - An optional value is <<>> (None) or <<v>>.                           *)
(***************************************************************************)
EXTENDS Integers, Sequences, FiniteSets, TLC

VARIABLES
    x,           \* the feature matrix handed to the group operations
    columns,     \* the MultiIndex of column keys <<metric, tractID, nodeID>>
    label_sets,  \* the array of label sets parallel to the columns of x
    np_random,   \* the state of numpy's global random generator
    beta_hat,    \* the coefficient vector handed to beta_hat_by_groups
    df,          \* the long-form measurement table handed to transform
    env,         \* the behaviour of the installed libraries
    ret          \* the last call: its name, arguments, locals and outcome

vars == <<x, columns, label_sets, np_random, beta_hat, df, env, ret>>

----------------------------------------------------------------------------
(* Bounds of the model. *)

MaxRows == 2
RngMod == 4
MaxMissing == 1

----------------------------------------------------------------------------
(* Python values. *)

None == <<>>
Some(v) == <<v>>

PyStr(words) == <<"str", words>>
PyInt(n) == <<"int", n>>

\* str(n) for an integer n, as numpy writes it when an int is stored into a
\* unicode array.
PyStrOfInt(n) == PyStr(<<ToString(n)>>)

Range(s) == {s[i] : i \in DOMAIN s}

\* set(label) for a tuple of labels.
PySet(label) == Range(label)

RECURSIVE SeqProd(_)
SeqProd(s) == IF s = <<>> THEN 1 ELSE Head(s) * SeqProd(Tail(s))

\* The indices of s, in increasing order, at which keep holds.
RECURSIVE Where(_)
Where(mask) ==
    IF mask = <<>> THEN <<>>
    ELSE LET n == Len(mask)
             front == Where(SubSeq(mask, 1, n - 1))
         IN IF mask[n] THEN Append(front, n) ELSE front

----------------------------------------------------------------------------
(* ndarrays. *)

Rank(a) == Len(a.shape)

\* What a call that raised returns: nothing (no array has this form).
NoArray == [shape |-> <<>>, flat |-> <<>>]

\* The number of elements under one index of axis 1 (the product of the
\* trailing dimensions).
Inner(a) == SeqProd(SubSeq(a.shape, 3, Rank(a)))

\* a[:, mask] for a of rank >= 2 and a boolean mask over axis 1.
TakeAxis1(a, mask) ==
    LET n0 == a.shape[1]
        n1 == a.shape[2]
        inner == Inner(a)
        kept == Where(mask)
        k == Len(kept)
    IN [shape |-> <<n0, k>> \o SubSeq(a.shape, 3, Rank(a)),
        flat |-> [p \in 1..(n0 * k * inner) |->
                    LET i == (p - 1) \div (k * inner)
                        j == ((p - 1) % (k * inner)) \div inner
                        r == (p - 1) % inner
                    IN a.flat[i * n1 * inner + (kept[j + 1] - 1) * inner + r + 1]]]

\* a[mask] for a of rank 1.
TakeAxis0(a, mask) ==
    LET kept == Where(mask)
    IN [shape |-> <<Len(kept)>>, flat |-> [p \in 1..Len(kept) |-> a.flat[kept[p]]]]

\* a[:, mask] = section, for a of rank >= 2 and section of the shape of
\* a[:, mask].
PutAxis1(a, mask, section) ==
    LET n1 == a.shape[2]
        inner == Inner(a)
        kept == Where(mask)
        k == Len(kept)
        Pos(j) == CHOOSE q \in 1..k : kept[q] = j
    IN [a EXCEPT !.flat =
          [p \in 1..Len(a.flat) |->
             LET i == (p - 1) \div (n1 * inner)
                 j == ((p - 1) % (n1 * inner)) \div inner
                 r == (p - 1) % inner
             IN IF mask[j + 1]
                THEN section.flat[i * k * inner + (Pos(j + 1) - 1) * inner + r + 1]
                ELSE a.flat[p]]]

----------------------------------------------------------------------------
(* Label-set matching: `set(label) <= label_sets`, which numpy broadcasts   *)
(* over the object array label_sets.                                       *)

SubsetMask(label, sets) == [i \in 1..Len(sets) |-> PySet(label) \subseteq sets[i]]

LogicalNot(mask) == [i \in 1..Len(mask) |-> ~mask[i]]

LogicalOr(m1, m2) == [i \in 1..Len(m1) |-> m1[i] \/ m2[i]]

ZerosLike(sets) == [i \in 1..Len(sets) |-> FALSE]

\* The tail of the select/remove functions with the rank test loosened to
\* "at least two dimensions".
IndexByMask_anyrank(a, mask) ==
    IF Rank(a) >= 2 THEN [status |-> "ok", value |-> TakeAxis1(a, mask), mask |-> mask]
    ELSE IF Rank(a) = 1 THEN [status |-> "ok", value |-> TakeAxis0(a, mask), mask |-> mask]
    ELSE [status |-> "ValueError", value |-> NoArray, mask |-> mask]

\* The tail shared by the four select/remove functions: index by the mask
\* when x has rank 2 or 1, raise ValueError otherwise.
IndexByMask(a, mask) ==
    IF Rank(a) = 2 THEN [status |-> "ok", value |-> TakeAxis1(a, mask), mask |-> mask]
    ELSE IF Rank(a) = 1 THEN [status |-> "ok", value |-> TakeAxis0(a, mask), mask |-> mask]
    ELSE [status |-> "ValueError", value |-> NoArray, mask |-> mask]

select_group(a, select_label, sets) ==
    IndexByMask(a, SubsetMask(select_label, sets))

\* remove_group's mask with the operands of <= exchanged.
RemoveGroupMask_swapped(remove_label, sets) ==
    LogicalNot([i \in 1..Len(sets) |-> sets[i] \subseteq PySet(remove_label)])

RemoveGroupMask(remove_label, sets) == LogicalNot(SubsetMask(remove_label, sets))

remove_group(a, remove_label, sets) ==
    IndexByMask(a, RemoveGroupMask(remove_label, sets))

\* The loop of select_groups: mask = mask or (set(label) <= label_sets).
RECURSIVE SelectGroupsMask(_, _)
SelectGroupsMask(select_labels, sets) ==
    IF select_labels = <<>> THEN ZerosLike(sets)
    ELSE LET n == Len(select_labels)
         IN LogicalOr(SelectGroupsMask(SubSeq(select_labels, 1, n - 1), sets),
                      SubsetMask(select_labels[n], sets))

select_groups(a, select_labels, sets) ==
    IndexByMask(a, SelectGroupsMask(select_labels, sets))

\* remove_groups as the strict complement of select_groups.
RemoveGroupsMask_complement(remove_labels, sets) ==
    LogicalNot(SelectGroupsMask(remove_labels, sets))

\* The loop of remove_groups: mask = mask or not (set(label) <= label_sets).
RECURSIVE RemoveGroupsMask(_, _)
RemoveGroupsMask(remove_labels, sets) ==
    IF remove_labels = <<>> THEN ZerosLike(sets)
    ELSE LET n == Len(remove_labels)
         IN LogicalOr(RemoveGroupsMask(SubSeq(remove_labels, 1, n - 1), sets),
                      LogicalNot(SubsetMask(remove_labels[n], sets)))

remove_groups(a, remove_labels, sets) ==
    IndexByMask(a, RemoveGroupsMask(remove_labels, sets))

----------------------------------------------------------------------------
(* numpy's global random generator.  Its state is abstracted to a number  *)
(* in 0..RngMod-1; every draw steps the state and derives its value from   *)
(* the new state.                                                          *)

RngStep(s) == (5 * s + 3) % RngMod

\* rk_interval(max): a draw from 0..max.
random_interval(s, max) ==
    LET s2 == RngStep(s) IN [value |-> s2 % (max + 1), state |-> s2]

\* np.random.seed(seed)
SeedState(seed) == seed % RngMod

Swap(s, i, j) == [s EXCEPT ![i] = s[j], ![j] = s[i]]

\* np.random.shuffle on a one-dimensional array: for i = n-1 down to 1,
\* j = rk_interval(i), swap elements i and j (0-based).  ShuffleFrom(s, i, st)
\* runs the loop from index i downwards.
RECURSIVE ShuffleFrom(_, _, _)
ShuffleFrom(s, i, st) ==
    IF i < 1 THEN [seq |-> s, state |-> st]
    ELSE LET d == random_interval(st, i)
         IN ShuffleFrom(Swap(s, i + 1, d.value + 1), i - 1, d.state)

np_random_shuffle(s, st) == ShuffleFrom(s, Len(s) - 1, st)

\* shuffle_group without the restoring np.random.set_state.
shuffle_group_norestore(a, label, sets, random_seed, rng) ==
    LET mask == SubsetMask(label, sets)
    IN IF Rank(a) < 2
       THEN [status |-> "IndexError", value |-> NoArray, mask |-> mask, rng |-> rng,
             x |-> a]
       ELSE LET section == TakeAxis1(a, mask)
                start == IF random_seed # None THEN SeedState(random_seed[1]) ELSE rng
                sh == np_random_shuffle(section.flat, start)
            IN [status |-> "ok",
                value |-> PutAxis1(a, mask, [section EXCEPT !.flat = sh.seq]),
                mask |-> mask,
                rng |-> sh.state,
                x |-> a]

\* shuffle_group with out = x in place of out = np.copy(x): the assignment
\* out[:, mask] = ... writes into the caller's array.
shuffle_group_nocopy(a, label, sets, random_seed, rng) ==
    LET mask == SubsetMask(label, sets)
    IN IF Rank(a) < 2
       THEN [status |-> "IndexError", value |-> NoArray, mask |-> mask, rng |-> rng,
             x |-> a]
       ELSE LET section == TakeAxis1(a, mask)
                random_state == IF random_seed # None THEN Some(rng) ELSE None
                start == IF random_seed # None THEN SeedState(random_seed[1]) ELSE rng
                sh == np_random_shuffle(section.flat, start)
                after == IF random_seed # None THEN random_state[1] ELSE sh.state
                out == PutAxis1(a, mask, [section EXCEPT !.flat = sh.seq])
            IN [status |-> "ok", value |-> out, mask |-> mask, rng |-> after, x |-> out]

\* shuffle_group(x, label, label_sets, random_seed) run with the global
\* generator in state rng; .rng is the generator's state after the call
\* and .x the caller's array after the call.  out = np.copy(x) is a new
\* array, out[:, mask] with a boolean mask and flatten() are copies too, so
\* every write of the call goes to out or to section and none to x.
shuffle_group(a, label, sets, random_seed, rng) ==
    LET mask == SubsetMask(label, sets)
    IN IF Rank(a) < 2
       THEN \* out[:, mask] raises "too many indices for array"
            [status |-> "IndexError", value |-> NoArray, mask |-> mask, rng |-> rng,
             x |-> a]
       ELSE LET out == a
                section == TakeAxis1(out, mask)
                random_state == IF random_seed # None THEN Some(rng) ELSE None
                start == IF random_seed # None THEN SeedState(random_seed[1]) ELSE rng
                sh == np_random_shuffle(section.flat, start)
                after == IF random_seed # None THEN random_state[1] ELSE sh.state
            IN [status |-> "ok",
                value |-> PutAxis1(out, mask, [section EXCEPT !.flat = sh.seq]),
                mask |-> mask,
                rng |-> after,
                x |-> a]

----------------------------------------------------------------------------
(* pandas.MultiIndex: levels <<metrics, tractIDs, nodeIDs>> (each sorted)   *)
(* and one code triple per column.                                         *)

metric_level == 1
tract_level == 2
node_level == 3

\* MultiIndex.from_product(levels): every combination, in lexicographic
\* order of the codes.
FromProduct(levels) ==
    LET nm == Len(levels[1])
        nt == Len(levels[2])
        nn == Len(levels[3])
    IN [levels |-> levels,
        codes |-> [p \in 1..(nm * nt * nn) |->
                     << ((p - 1) \div (nt * nn)) + 1,
                        (((p - 1) % (nt * nn)) \div nn) + 1,
                        ((p - 1) % nn) + 1 >>]]

NCols(cols) == Len(cols.codes)

\* columns.to_numpy(): the column keys as tuples (metric, tractID, nodeID).
ToNumpy(cols) ==
    [i \in 1..NCols(cols) |->
        << PyStr(cols.levels[1][cols.codes[i][1]]),
           PyStr(cols.levels[2][cols.codes[i][2]]),
           PyInt(cols.levels[3][cols.codes[i][3]]) >>]

\* str.replace(token + " ", ""): every occurrence of the token followed by
\* a space goes, that is every word equal to the token but the last word.
RECURSIVE Replace(_, _)
Replace(words, token) ==
    IF Len(words) <= 1 THEN words
    ELSE IF Head(words) = token THEN Replace(Tail(words), token)
    ELSE <<Head(words)>> \o Replace(Tail(words), token)

bilateral_symmetry(tract) == Replace(Replace(tract, "Left"), "Right")

\* np.array on a list of tuples that mix str and int yields a unicode
\* array: every int is stored as its decimal string.
NpUnicode(label) == IF label[1] = "int" THEN PyStrOfInt(label[2]) ELSE label

multicol2sets(cols, tract_symmetry) ==
    LET col_vals == ToNumpy(cols)
        widened == [i \in 1..NCols(cols) |->
                      LET c == Append(col_vals[i],
                                      PyStr(bilateral_symmetry(col_vals[i][tract_level][2])))
                      IN [k \in 1..Len(c) |-> NpUnicode(c[k])]]
    IN IF tract_symmetry
       THEN [i \in 1..NCols(cols) |-> Range(widened[i])]
       ELSE [i \in 1..NCols(cols) |-> Range(col_vals[i])]

----------------------------------------------------------------------------
(* The group algebra as a state machine: a caller holds a feature matrix x *)
(* and the label sets of its columns, and calls the group operations in    *)
(* any order.  The operations never write x or label_sets; shuffle_group   *)
(* reads and writes the global generator.                                  *)

fa == <<"fa">>
md == <<"md">>
Callosum == <<"Callosum">>
LeftCingulum == <<"Left", "Cingulum">>
RightCingulum == <<"Right", "Cingulum">>

MetricLevels == {<<fa>>, <<fa, md>>}
TractLevels == {<<Callosum>>, <<LeftCingulum, RightCingulum>>}
NodeLevels == {<<0, 1>>}

\* The matrices over n columns: one of each shape of rank 0 to 3, holding
\* pairwise different entries (the operations only move entries, so every
\* other matrix of the shape is an image of this one).
Arange(shape) == [shape |-> shape, flat |-> [p \in 1..SeqProd(shape) |-> p]]

Matrices(n) ==
    {Arange(<<>>), Arange(<<n>>)}
    \cup {Arange(<<r, n>>) : r \in 1..MaxRows}
    \cup {Arange(<<1, n, 2>>)}

\* The labels and label lists the caller passes.
LabelChoices ==
    { <<>>,
      <<PyStr(fa)>>,
      <<PyStr(<<"Cingulum">>)>>,
      <<PyStr(LeftCingulum)>>,
      <<PyInt(0)>>,
      <<PyStr(<<"0">>)>>,
      <<PyStr(md), PyStr(RightCingulum)>> }

LabelListChoices ==
    LET base == { <<PyStr(fa)>>, <<PyStr(LeftCingulum)>>, <<PyStr(<<"Cingulum">>)>> }
    IN {<<>>} \cup {<<l>> : l \in base} \cup {<<l1, l2>> : l1 \in base, l2 \in base}

SeedChoices == {None, Some(0), Some(1)}

NoCall ==
    [fn |-> "none", labels |-> <<>>, seed |-> None, status |-> "none",
     value |-> NoArray, mask |-> <<>>]

Returned(fn, labels, seed, r) ==
    [fn |-> fn, labels |-> labels, seed |-> seed, status |-> r.status,
     value |-> r.value, mask |-> r.mask]

Init ==
    /\ \E m \in MetricLevels, t \in TractLevels, n \in NodeLevels :
          columns = FromProduct(<<m, t, n>>)
    /\ \E tract_symmetry \in BOOLEAN :
          label_sets = multicol2sets(columns, tract_symmetry)
    /\ x \in Matrices(NCols(columns))
    /\ np_random \in 0..(RngMod - 1)
    /\ beta_hat = <<>>
    /\ df = <<>>
    /\ env = "numpy"
    /\ ret = NoCall

SelectGroup ==
    /\ \E label \in LabelChoices :
          ret' = Returned("select_group", <<label>>, None,
                          select_group(x, label, label_sets))
    /\ UNCHANGED <<x, columns, label_sets, np_random, beta_hat, df, env>>

RemoveGroup ==
    /\ \E label \in LabelChoices :
          ret' = Returned("remove_group", <<label>>, None,
                          remove_group(x, label, label_sets))
    /\ UNCHANGED <<x, columns, label_sets, np_random, beta_hat, df, env>>

SelectGroups ==
    /\ \E labels \in LabelListChoices :
          ret' = Returned("select_groups", labels, None,
                          select_groups(x, labels, label_sets))
    /\ UNCHANGED <<x, columns, label_sets, np_random, beta_hat, df, env>>

RemoveGroups ==
    /\ \E labels \in LabelListChoices :
          ret' = Returned("remove_groups", labels, None,
                          remove_groups(x, labels, label_sets))
    /\ UNCHANGED <<x, columns, label_sets, np_random, beta_hat, df, env>>

ShuffleGroup ==
    /\ \E label \in LabelChoices, random_seed \in SeedChoices :
          LET r == shuffle_group(x, label, label_sets, random_seed, np_random)
          IN /\ ret' = Returned("shuffle_group", <<label>>, random_seed, r)
             /\ np_random' = r.rng
             /\ x' = r.x
    /\ UNCHANGED <<columns, label_sets, beta_hat, df, env>>

Next == SelectGroup \/ RemoveGroup \/ SelectGroups \/ RemoveGroups \/ ShuffleGroup

Spec == Init /\ [][Next]_vars

----------------------------------------------------------------------------
(* Properties of the group algebra (checked under Spec).                   *)

NumColumns(a) == IF Rank(a) >= 2 THEN a.shape[2] ELSE a.shape[1]

\* Column j of a matrix of rank 2 (its entries, top to bottom) or of a
\* vector of rank 1 (its one entry).
Column(a, j) ==
    IF Rank(a) = 2
    THEN [i \in 1..a.shape[1] |-> a.flat[(i - 1) * a.shape[2] + j]]
    ELSE <<a.flat[j]>>

\* v has the rank and row count of x, and each of its columns is a column
\* of x.
EachColumnFromX(v) ==
    /\ Rank(v) = Rank(x)
    /\ Rank(x) = 2 => v.shape[1] = x.shape[1]
    /\ Len(v.flat) = SeqProd(v.shape)
    /\ \A q \in 1..NumColumns(v) : \E j \in 1..NumColumns(x) : Column(v, q) = Column(x, j)

\* The column indices of x that v keeps (the entries of x are pairwise
\* different, so a column of v names its column of x).
ColumnsKept(v) ==
    {j \in 1..NumColumns(x) : \E q \in 1..NumColumns(v) : Column(v, q) = Column(x, j)}

Matches(label, j) == PySet(label) \subseteq label_sets[j]

\* C1: select_group followed by remove_group with the same label, on a
\* matrix of rank 1 or 2, return complementary column sets: both succeed,
\* every column they return is a column of x with its values, no column
\* index is kept by both and every column index is kept by exactly one.
C1_SelectRemoveComplement ==
    [][ ( /\ ret.fn = "select_group"
          /\ ret'.fn = "remove_group"
          /\ ret'.labels = ret.labels
          /\ Rank(x) \in {1, 2} )
        => ( /\ ret.status = "ok"
             /\ ret'.status = "ok"
             /\ EachColumnFromX(ret.value)
             /\ EachColumnFromX(ret'.value)
             /\ ColumnsKept(ret.value) \cap ColumnsKept(ret'.value) = {}
             /\ ColumnsKept(ret.value) \cup ColumnsKept(ret'.value) = 1..NumColumns(x)
             /\ NumColumns(ret.value) + NumColumns(ret'.value) = NumColumns(x) ) ]_vars

\* remove_group has returned some but not all columns of a matrix.
C1_Witness ==
    /\ ret.fn = "remove_group"
    /\ ret.status = "ok"
    /\ Rank(x) = 2
    /\ NumColumns(ret.value) > 0
    /\ NumColumns(ret.value) < NumColumns(x)

\* C3: a shuffle_group call that is given a seed leaves the global
\* generator in the state it found, so that an unseeded draw taken next
\* returns what it would have returned without the call; the global state
\* moves only in a call without a seed.
C3_SeededShuffleRestoresGenerator ==
    [][ /\ (ret'.fn = "shuffle_group" /\ ret'.seed # None)
           => /\ np_random' = np_random
              /\ \A max \in 0..3 :
                    random_interval(np_random', max) = random_interval(np_random, max)
        /\ np_random' # np_random
           => (ret'.fn = "shuffle_group" /\ ret'.seed = None) ]_vars

\* A seeded shuffle_group has returned a matrix whose entries moved.
C3_Witness ==
    /\ ret.fn = "shuffle_group"
    /\ ret.seed # None
    /\ ret.status = "ok"
    /\ ret.value # x

\* The columns remove_groups keeps by the loop's policy: a column stays iff
\* it fails to match at least one of the labels.
FailsSomeLabel(labels) ==
    {j \in 1..NumColumns(x) : \E k \in 1..Len(labels) : ~Matches(labels[k], j)}

SelectRemoveFns == {"select_group", "select_groups", "remove_group", "remove_groups"}

\* C8 (amended): select_group, select_groups, remove_group and
\* remove_groups raise ValueError and return nothing when x has a rank
\* other than 1 or 2, and succeed for rank 1 and rank 2; shuffle_group
\* has no such test: it succeeds for every rank of at least 2 and fails
\* with IndexError for rank 0 and rank 1.
C8_RankErrors ==
    /\ ret.fn \in SelectRemoveFns
       => /\ ret.status = (IF Rank(x) \in {1, 2} THEN "ok" ELSE "ValueError")
          /\ ret.status # "ok" => ret.value = NoArray
          /\ ret.status = "ok" => EachColumnFromX(ret.value)
    /\ ret.fn = "shuffle_group"
       => /\ ret.status = (IF Rank(x) >= 2 THEN "ok" ELSE "IndexError")
          /\ ret.status # "ok" => ret.value = NoArray
          /\ ret.status = "ok" => ret.value.shape = x.shape

\* C8 as claimed: each of the five operations fails and returns nothing
\* when the rank of x is other than 1 or 2, and succeeds for rank 1 and 2.
C8_AsClaimed ==
    ret.fn \in SelectRemoveFns \cup {"shuffle_group"}
    => /\ Rank(x) \notin {1, 2} => (ret.status # "ok" /\ ret.value = NoArray)
       /\ Rank(x) \in {1, 2} => ret.status = "ok"

\* shuffle_group has shuffled a matrix of rank 3.
C8_Witness ==
    /\ Rank(x) = 3
    /\ ret.fn = "shuffle_group"
    /\ ret.status = "ok"
    /\ ret.value # x

\* The column indices of x that match the label.
MatchingColumns(label) == {j \in 1..NumColumns(x) : Matches(label, j)}

\* The positions of a matrix (rank 2, stored row by row) that lie in the
\* columns cols.
BlockPositions(a, cols) == {p \in 1..Len(a.flat) : ((p - 1) % a.shape[2]) + 1 \in cols}

\* How often v occurs in a at the positions P.
Count(a, P, v) == Cardinality({p \in P : a.flat[p] = v})

\* The columns cols of a and of b hold the same multiset of values.
SameMultiset(a, b, cols) ==
    LET Pa == BlockPositions(a, cols)
        Pb == BlockPositions(b, cols)
    IN /\ Cardinality(Pa) = Cardinality(Pb)
       /\ \A v \in {a.flat[p] : p \in Pa} \cup {b.flat[p] : p \in Pb} :
             Count(a, Pa, v) = Count(b, Pb, v)

\* C11: a shuffle_group call on a matrix of rank 2 succeeds and returns a
\* matrix of the shape of x in which every column that does not match the
\* label is the same column of x, and the columns that match hold between
\* them the multiset of values the matching columns of x hold; the call
\* leaves x itself as it was.
C11_ShuffleGroupFrame ==
    [][ (ret'.fn = "shuffle_group" /\ Rank(x) = 2)
        => LET cols == MatchingColumns(ret'.labels[1])
           IN /\ ret'.status = "ok"
              /\ ret'.value.shape = x.shape
              /\ Len(ret'.value.flat) = Len(x.flat)
              /\ \A j \in (1..NumColumns(x)) \ cols :
                    Column(ret'.value, j) = Column(x, j)
              /\ SameMultiset(ret'.value, x, cols)
              /\ x' = x ]_vars

\* shuffle_group has returned a matrix in which a value of the matching
\* block sits in another row and another column than in x, while some
\* column does not match; x differs from the matrix returned.
C11_Witness ==
    /\ ret.fn = "shuffle_group"
    /\ ret.status = "ok"
    /\ Rank(x) = 2
    /\ \E j \in 1..NumColumns(x) : ~Matches(ret.labels[1], j)
    /\ \E p \in 1..Len(x.flat), q \in 1..Len(x.flat) :
          /\ ret.value.flat[q] = x.flat[p]
          /\ Matches(ret.labels[1], ((p - 1) % x.shape[2]) + 1)
          /\ (p - 1) \div x.shape[2] # (q - 1) \div x.shape[2]
          /\ (p - 1) % x.shape[2] # (q - 1) % x.shape[2]
    /\ ret.value # x

----------------------------------------------------------------------------
(* beta_hat_by_groups.  An OrderedDict is a sequence of <<key, value>>      *)
(* pairs in insertion order.                                               *)

AnyNonzero(a) == \E p \in 1..Len(a.flat) : a.flat[p] # 0

AsVector(beta) == [shape |-> <<Len(beta)>>, flat |-> beta]

\* The inner loop over the metric level for one tract.
RECURSIVE MetricEntries(_, _, _, _, _)
MetricEntries(beta, tract, metrics, sets, drop_zeros) ==
    IF metrics = <<>> THEN <<>>
    ELSE LET n == Len(metrics)
             front == MetricEntries(beta, tract, SubSeq(metrics, 1, n - 1), sets, drop_zeros)
             sel == select_group(AsVector(beta), <<PyStr(tract), PyStr(metrics[n])>>, sets).value
         IN IF ~drop_zeros \/ AnyNonzero(sel)
            THEN Append(front, <<metrics[n], sel.flat>>)
            ELSE front

\* The outer loop over the tractID level.
RECURSIVE TractEntries(_, _, _, _, _)
TractEntries(beta, tracts, metrics, sets, drop_zeros) ==
    IF tracts = <<>> THEN <<>>
    ELSE LET n == Len(tracts)
             front == TractEntries(beta, SubSeq(tracts, 1, n - 1), metrics, sets, drop_zeros)
             all_metrics == select_group(AsVector(beta), <<PyStr(tracts[n])>>, sets).value
         IN IF ~drop_zeros \/ AnyNonzero(all_metrics)
            THEN Append(front,
                        <<tracts[n], MetricEntries(beta, tracts[n], metrics, sets, drop_zeros)>>)
            ELSE front

\* beta_hat_by_groups with drop_zeros ignored.
beta_hat_by_groups_keepzeros(beta, cols, drop_zeros) ==
    TractEntries(beta, cols.levels[tract_level], cols.levels[metric_level],
                 multicol2sets(cols, FALSE), FALSE)

beta_hat_by_groups(beta, cols, drop_zeros) ==
    TractEntries(beta, cols.levels[tract_level], cols.levels[metric_level],
                 multicol2sets(cols, FALSE), drop_zeros)

----------------------------------------------------------------------------
(* multicol2sets and beta_hat_by_groups as a state machine: a caller holds *)
(* the column index of a feature matrix and a coefficient vector parallel  *)
(* to it.                                                                  *)

ForcepsLeftMajor == <<"Forceps", "Left", "Major">>

LabelTractLevels ==
    { <<Callosum, LeftCingulum>>,
      <<LeftCingulum, RightCingulum>>,
      <<ForcepsLeftMajor, LeftCingulum>>,
      <<Callosum, fa>> }

LabelNodeLevels == {<<5>>, <<0, 1>>}

\* The column indexes: the product of the levels, whole or without the
\* columns of one (metric, tractID) pair.
SubIndex(levels, dropped) ==
    LET full == FromProduct(levels)
        keep == [i \in 1..NCols(full) |->
                   <<full.codes[i][metric_level], full.codes[i][tract_level]>> \notin dropped]
        kept == Where(keep)
    IN [levels |-> levels, codes |-> [q \in 1..Len(kept) |-> full.codes[kept[q]]]]

ColumnIndexes ==
    { SubIndex(<<<<fa, md>>, t, n>>, d) :
        t \in LabelTractLevels, n \in LabelNodeLevels,
        d \in {{}} \cup {{<<m, k>>} : m \in 1..2, k \in 1..2} }

\* The coefficient vectors over n columns: coefficient i is 0 or i.
Coefficients(n) ==
    { [i \in 1..n |-> IF i \in nz THEN i ELSE 0] : nz \in SUBSET (1..n) }

NoLabelCall == [fn |-> "none", flag |-> FALSE, sets |-> <<>>, betas |-> <<>>]

InitLabels ==
    /\ columns \in ColumnIndexes
    /\ beta_hat \in Coefficients(NCols(columns))
    /\ x = NoArray
    /\ label_sets = <<>>
    /\ np_random = 0
    /\ df = <<>>
    /\ env = "numpy"
    /\ ret = NoLabelCall

Multicol2sets ==
    /\ \E tract_symmetry \in BOOLEAN :
          ret' = [fn |-> "multicol2sets", flag |-> tract_symmetry,
                  sets |-> multicol2sets(columns, tract_symmetry), betas |-> <<>>]
    /\ UNCHANGED <<x, columns, label_sets, np_random, beta_hat, df, env>>

BetaHatByGroups ==
    /\ \E drop_zeros \in BOOLEAN :
          ret' = [fn |-> "beta_hat_by_groups", flag |-> drop_zeros, sets |-> <<>>,
                  betas |-> beta_hat_by_groups(beta_hat, columns, drop_zeros)]
    /\ UNCHANGED <<x, columns, label_sets, np_random, beta_hat, df, env>>

NextLabels == Multicol2sets \/ BetaHatByGroups

SpecLabels == InitLabels /\ [][NextLabels]_vars

----------------------------------------------------------------------------
(* Properties of multicol2sets and beta_hat_by_groups (under SpecLabels).  *)

KeyMetric(i) == columns.levels[metric_level][columns.codes[i][metric_level]]
KeyTract(i) == columns.levels[tract_level][columns.codes[i][tract_level]]
KeyNode(i) == columns.levels[node_level][columns.codes[i][node_level]]

\* tractID with only a leading "Left " or "Right " removed.
StripLeadingSide(tract) ==
    IF Len(tract) > 1 /\ Head(tract) \in {"Left", "Right"} THEN Tail(tract) ELSE tract

\* C9: multicol2sets returns for column i the label set {metric, tractID,
\* nodeID, s} when tract_symmetry is set, with nodeID the integer of the
\* key and s the tractID without a leading "Left " or "Right ", and the set
\* {metric, tractID, nodeID} when it is not set.
C9_LabelSetOfColumn ==
    ret.fn = "multicol2sets"
    => /\ Len(ret.sets) = NCols(columns)
       /\ \A i \in 1..NCols(columns) :
             ret.sets[i] =
                {PyStr(KeyMetric(i)), PyStr(KeyTract(i)), PyInt(KeyNode(i))}
                \cup (IF ret.flag THEN {PyStr(StripLeadingSide(KeyTract(i)))} ELSE {})

TractColumns(t) == {i \in 1..NCols(columns) : KeyTract(i) = t}
PairColumns(t, m) == {i \in 1..NCols(columns) : KeyTract(i) = t /\ KeyMetric(i) = m}

\* beta_hat at the columns of cs, in column order.
Subvector(cs) ==
    LET kept == Where([i \in 1..NCols(columns) |-> i \in cs])
    IN [q \in 1..Len(kept) |-> beta_hat[kept[q]]]

Keys(dict) == {dict[k][1] : k \in 1..Len(dict)}
Lookup(dict, key) == dict[CHOOSE k \in 1..Len(dict) : dict[k][1] = key][2]

TractNames == Range(columns.levels[tract_level])
MetricNames == Range(columns.levels[metric_level])

\* What C10 says of the returned map.
BetasAsClaimed(betas, drop_zeros) ==
    /\ Len(betas) = Cardinality(Keys(betas))
    /\ Keys(betas) \subseteq TractNames
    /\ \A t \in TractNames :
          /\ t \in Keys(betas)
               <=> (~drop_zeros \/ \E i \in TractColumns(t) : beta_hat[i] # 0)
          /\ t \in Keys(betas)
               => /\ Len(Lookup(betas, t)) = Cardinality(Keys(Lookup(betas, t)))
                  /\ Keys(Lookup(betas, t)) \subseteq MetricNames
                  /\ \A m \in MetricNames :
                        /\ m \in Keys(Lookup(betas, t))
                             <=> (~drop_zeros \/ \E i \in PairColumns(t, m) : beta_hat[i] # 0)
                        /\ m \in Keys(Lookup(betas, t))
                             => Lookup(Lookup(betas, t), m) = Subvector(PairColumns(t, m))

\* C10 (amended): as claimed, for column indexes in which no tractID is
\* also the name of a metric.
C10_BetasByTractAndMetric ==
    (ret.fn = "beta_hat_by_groups" /\ TractNames \cap MetricNames = {})
    => BetasAsClaimed(ret.betas, ret.flag)

\* C10 as claimed, for every column index.
C10_AsClaimed ==
    ret.fn = "beta_hat_by_groups" => BetasAsClaimed(ret.betas, ret.flag)

\* drop_zeros has dropped a tract whose coefficients are all zero, and a
\* metric of a tract that stays.
C10_Witness ==
    /\ ret.fn = "beta_hat_by_groups"
    /\ ret.flag
    /\ TractNames \cap MetricNames = {}
    /\ \E t \in TractNames : TractColumns(t) # {} /\ t \notin Keys(ret.betas)
    /\ \E t \in Keys(ret.betas) :
          \E m \in MetricNames :
              /\ PairColumns(t, m) # {}
              /\ m \notin Keys(Lookup(ret.betas, t))
    /\ \E t \in Keys(ret.betas) :
          \E m \in Keys(Lookup(ret.betas, t)) : Len(Lookup(Lookup(ret.betas, t), m)) = 2

----------------------------------------------------------------------------
(* AFQFeatureTransformer.transform.  A float is an integer here; the       *)
(* measurements of the model are multiples of 12, which keeps every        *)
(* interpolated value and every median an integer (Div refuses to round).  *)
(* A missing value (NaN) is <<>>, a value v is <<v>>.                      *)

NaN == <<>>
IsNaN(c) == c = <<>>

\* a / d, which must be exact.
Div(a, d) == CHOOSE q \in {a \div d} : q * d = a

SubjectOrder == <<"s1", "s2">>
TractOrder == <<Callosum, LeftCingulum>>
MetricOrder == <<fa, md>>
NodeOrder == <<0, 1, 3>>

\* The members of a set in the order of a sorted universe.
RECURSIVE Sorted(_, _)
Sorted(universe, S) ==
    IF universe = <<>> THEN <<>>
    ELSE IF Head(universe) \in S
         THEN <<Head(universe)>> \o Sorted(Tail(universe), S)
         ELSE Sorted(Tail(universe), S)

IndexOf(seq, v) == CHOOSE p \in 1..Len(seq) : seq[p] = v

\* The value of the melted table at a key, NaN when the table has no row.
Cell(d, s, t, n, m) ==
    IF <<s, t, n, m>> \in DOMAIN d THEN d[<<s, t, n, m>>] ELSE NaN

\* pd.pivot_table(index="nodeID", columns=["metric", "tractID",
\* "subjectID"]): groups whose value is NaN are dropped before unstacking,
\* so the table has the nodes and the series with a valid value.
PivotTable(d) ==
    LET keys == {<<k[4], k[2], k[1]>> : k \in DOMAIN d}
        nodes == {k[3] : k \in DOMAIN d}
        series == {k \in keys : \E n \in nodes : ~IsNaN(Cell(d, k[3], k[2], n, k[1]))}
        index == Sorted(NodeOrder,
                        {n \in nodes : \E k \in series : ~IsNaN(Cell(d, k[3], k[2], n, k[1]))})
    IN [index |-> index,
        series |-> series,
        col |-> [k \in series |->
                   [p \in 1..Len(index) |-> Cell(d, k[3], k[2], index[p], k[1])]]]

ValidPositions(col) == {p \in 1..Len(col) : ~IsNaN(col[p])}

Max(S) == CHOOSE v \in S : \A w \in S : w <= v
Min(S) == CHOOSE v \in S : \A w \in S : v <= w

\* DataFrame.interpolate(method="linear", limit_direction="both") on one
\* column: method "linear" ignores the index and treats the rows as
\* equally spaced; NaN before the first valid row and after the last one
\* take the nearest valid value.
InterpolateLinear(index, col) ==
    LET valid == ValidPositions(col)
    IN [p \in 1..Len(col) |->
          IF p \in valid THEN col[p]
          ELSE LET before == {q \in valid : q < p}
                   after == {q \in valid : q > p}
               IN IF before # {} /\ after # {}
                  THEN LET a == Max(before)
                           b == Min(after)
                       IN << col[a][1] + Div((col[b][1] - col[a][1]) * (p - a), b - a) >>
                  ELSE IF after # {} THEN col[Min(after)]
                  ELSE IF before # {} THEN col[Max(before)]
                  ELSE NaN]

\* interp_linear_with_extrap on one column: interp1d over the valid
\* (nodeID, value) pairs, evaluated at every node of the index.  interp1d
\* takes the bracketing pair by searchsorted, clipped to the first and the
\* last pair, and follows that pair's line.
InterpLinearWithExtrap(index, col) ==
    LET pos == Sorted([p \in 1..Len(col) |-> p], ValidPositions(col))
        xs == [i \in 1..Len(pos) |-> index[pos[i]]]
        ys == [i \in 1..Len(pos) |-> col[pos[i]][1]]
        F(x_new) ==
            LET found == Cardinality({i \in 1..Len(xs) : xs[i] < x_new})
                clipped == IF found < 1 THEN 1
                           ELSE IF found > Len(xs) - 1 THEN Len(xs) - 1 ELSE found
                lo == clipped
                hi == clipped + 1
            IN ys[lo] + Div((ys[hi] - ys[lo]) * (x_new - xs[lo]), xs[hi] - xs[lo])
    IN [p \in 1..Len(col) |-> <<F(index[p])>>]

\* The interpolation step (lines 78-111).  interp1d refuses fewer than two
\* points.
Interpolated(by_node_idx, extrapolate) ==
    IF ~extrapolate
    THEN [status |-> "ok",
          table |-> [by_node_idx EXCEPT !.col =
                       [k \in by_node_idx.series |->
                          InterpolateLinear(by_node_idx.index, by_node_idx.col[k])]]]
    ELSE IF \E k \in by_node_idx.series :
               Cardinality(ValidPositions(by_node_idx.col[k])) < 2
    THEN [status |-> "ValueError", table |-> by_node_idx]
    ELSE [status |-> "ok",
          table |-> [by_node_idx EXCEPT !.col =
                       [k \in by_node_idx.series |->
                          InterpLinearWithExtrap(by_node_idx.index, by_node_idx.col[k])]]]

\* A frame is [index |-> the subjects, columns |-> a MultiIndex,
\* cell |-> rows of cells].
FrameKey(cols, c) ==
    << cols.levels[metric_level][cols.codes[c][metric_level]],
       cols.levels[tract_level][cols.codes[c][tract_level]],
       cols.levels[node_level][cols.codes[c][node_level]] >>

\* interpolated.stack([...]).unstack([...]): one row per subject, one
\* column per (metric, tractID, nodeID) that holds a value for some
\* subject; the levels are those in use.
StackUnstack(table) ==
    LET pairs == {<<k[1], k[2]>> : k \in table.series}
        levels == << Sorted(MetricOrder, {q[1] : q \in pairs}),
                     Sorted(TractOrder, {q[2] : q \in pairs}),
                     table.index >>
        full == FromProduct(levels)
        kept == Where([i \in 1..NCols(full) |->
                         <<FrameKey(full, i)[1], FrameKey(full, i)[2]>> \in pairs])
        cols == [levels |-> levels, codes |-> [q \in 1..Len(kept) |-> full.codes[kept[q]]]]
        subjects == Sorted(SubjectOrder, {k[3] : k \in table.series})
    IN [index |-> subjects,
        columns |-> cols,
        cell |-> [r \in 1..Len(subjects) |->
                    [c \in 1..NCols(cols) |->
                       LET key == FrameKey(cols, c)
                           k == <<key[1], key[2], subjects[r]>>
                       IN IF k \in table.series
                          THEN table.col[k][cols.codes[c][node_level]]
                          ELSE NaN]]]

\* features.loc[:, new_columns]: the columns in the order of new_columns.
\* A label of new_columns that features does not have makes pandas raise
\* KeyError, or (before pandas 1.0) insert a column of NaN.
Loc(features, new_columns, pandas_loc) ==
    LET have == {FrameKey(features.columns, c) : c \in 1..NCols(features.columns)}
        Old(key) == CHOOSE c \in 1..NCols(features.columns) :
                        FrameKey(features.columns, c) = key
        absent == \E c \in 1..NCols(new_columns) : FrameKey(new_columns, c) \notin have
    IN IF absent /\ pandas_loc = "raises"
       THEN [status |-> "KeyError", frame |-> features]
       ELSE [status |-> "ok",
             frame |-> [index |-> features.index,
                        columns |-> new_columns,
                        cell |-> [r \in 1..Len(features.index) |->
                                    [c \in 1..NCols(new_columns) |->
                                       IF FrameKey(new_columns, c) \in have
                                       THEN features.cell[r][Old(FrameKey(new_columns, c))]
                                       ELSE NaN]]]]

\* Insertion into a sorted sequence, and sorting.
RECURSIVE Insert(_, _)
Insert(sorted, v) ==
    IF sorted = <<>> THEN <<v>>
    ELSE IF v <= Head(sorted) THEN <<v>> \o sorted
    ELSE <<Head(sorted)>> \o Insert(Tail(sorted), v)

RECURSIVE Sort(_)
Sort(seq) == IF seq = <<>> THEN <<>> ELSE Insert(Sort(Tail(seq)), Head(seq))

\* features.median(): per column, the median of the values that are not
\* NaN, and NaN for a column that has none.
Median(features, c) ==
    LET rows == Where([r \in 1..Len(features.index) |-> ~IsNaN(features.cell[r][c])])
        vs == Sort([q \in 1..Len(rows) |-> features.cell[rows[q]][c][1]])
        n == Len(vs)
    IN IF n = 0 THEN NaN
       ELSE IF n % 2 = 1 THEN <<vs[(n + 1) \div 2]>>
       ELSE <<Div(vs[n \div 2] + vs[(n \div 2) + 1], 2)>>

\* features.fillna(features.median(), inplace=True)
FillnaMedian(features) ==
    [features EXCEPT !.cell =
        [r \in 1..Len(features.index) |->
           [c \in 1..NCols(features.columns) |->
              IF IsNaN(features.cell[r][c]) THEN Median(features, c)
              ELSE features.cell[r][c]]]]

\* The group code with the tract count left out of the product.
bundle_group_membership_sum(cols) ==
    [c \in 1..NCols(cols) |->
        (cols.codes[c][metric_level] - 1) + (cols.codes[c][tract_level] - 1)]

\* codes[metric_level] * n_tracts + codes[tract_level] (codes from 0).
bundle_group_membership(cols) ==
    LET n_tracts == Len(cols.levels[tract_level])
    IN [c \in 1..NCols(cols) |->
          (cols.codes[c][metric_level] - 1) * n_tracts + (cols.codes[c][tract_level] - 1)]

\* The sorted members of a set of numbers.
RECURSIVE SortedSet(_)
SortedSet(S) == IF S = {} THEN <<>> ELSE <<Min(S)>> \o SortedSet(S \ {Min(S)})

\* [np.where(membership == gid)[0] for gid in np.unique(membership)]:
\* column positions counted from 0.
Groups(membership) ==
    LET gids == SortedSet(Range(membership))
    IN [g \in 1..Len(gids) |->
          LET at == Where([c \in 1..Len(membership) |-> membership[c] = gids[g]])
          IN [q \in 1..Len(at) |-> at[q] - 1]]

NoFrame == [index |-> <<>>, columns |-> FromProduct(<<<<>>, <<>>, <<>>>>), cell |-> <<>>]

Raised(status) ==
    [status |-> status, X |-> <<>>, groups |-> <<>>, columns |-> NoFrame.columns,
     bias_index |-> None]

\* A Python assignment "name = value" followed by the statements that use
\* the name: the value is computed once and Rest sees it under the name.
Assign(value, Rest(_)) == CHOOSE r \in {Rest(name) : name \in {value}} : TRUE

\* The values transform returns from the filled frame.
Returned_transform(features, add_bias_feature) ==
    Assign(Groups(bundle_group_membership(features.columns)), LAMBDA groups :
        IF add_bias_feature
        THEN [status |-> "ok",
              X |-> [r \in 1..Len(features.index) |-> Append(features.cell[r], <<1>>)],
              groups |-> groups,
              columns |-> features.columns,
              bias_index |-> Some(NCols(features.columns))]
        ELSE [status |-> "ok",
              X |-> features.cell,
              groups |-> groups,
              columns |-> features.columns,
              bias_index |-> None])

\* transform without the bias column appended (bias_index still returned).
transform_nobias(d, extrapolate, add_bias_feature, pandas_loc) ==
    Assign(PivotTable(d), LAMBDA by_node_idx :
    Assign(Interpolated(by_node_idx, extrapolate), LAMBDA interpolated :
        IF interpolated.status # "ok" THEN Raised(interpolated.status)
        ELSE
    Assign(StackUnstack(interpolated.table), LAMBDA unstacked :
    Assign(Loc(unstacked, FromProduct(unstacked.columns.levels), pandas_loc), LAMBDA located :
        IF located.status # "ok" THEN Raised(located.status)
        ELSE
    Assign(FillnaMedian(located.frame), LAMBDA features :
        [Returned_transform(features, FALSE) EXCEPT
            !.bias_index = IF add_bias_feature
                           THEN Some(NCols(features.columns)) ELSE None])))))

\* transform(df, extrapolate, add_bias_feature), on a pandas whose .loc
\* treats absent labels as pandas_loc says.
transform(d, extrapolate, add_bias_feature, pandas_loc) ==
    Assign(PivotTable(d), LAMBDA by_node_idx :
    Assign(Interpolated(by_node_idx, extrapolate), LAMBDA interpolated :
        IF interpolated.status # "ok" THEN Raised(interpolated.status)
        ELSE
    Assign(StackUnstack(interpolated.table), LAMBDA unstacked :
    Assign(Loc(unstacked, FromProduct(unstacked.columns.levels), pandas_loc), LAMBDA located :
        IF located.status # "ok" THEN Raised(located.status)
        ELSE
    Assign(FillnaMedian(located.frame), LAMBDA features :
        Returned_transform(features, add_bias_feature))))))

----------------------------------------------------------------------------
(* transform as a state machine: a caller holds a measurement table and    *)
(* calls transform once, with either policy, with or without the bias      *)
(* column (transform keeps no state, so one call per table shows all).     *)

Subjects == Range(SubjectOrder)
Tracts == Range(TractOrder)
Metrics == Range(MetricOrder)
Nodes == Range(NodeOrder)

\* The measurement of the model at a key: a multiple of 12 that is not
\* linear in the node id.
Measure(s, t, n, m) ==
    12 * (n * n + 2 * IndexOf(TractOrder, t) + 5 * IndexOf(MetricOrder, m)
          + 3 * IndexOf(SubjectOrder, s))

AllSeries == Subjects \X Tracts \X Metrics

\* The nodes a series may miss: the first, an inner one, the last, all but
\* one, all.
NanMasks == {{0}, {1}, {3}, {0, 1}, {0, 1, 3}}

\* The rows the second tract may have: all nodes, or not the last one.
ShortRows == {{0, 1, 3}, {0, 1}}

\* The tables: the first subject has both tracts, the second has any of
\* them or is absent; the second tract may have fewer nodes than the
\* first; at most MaxMissing series have missing values.
Table(second, rows, marks) ==
    LET has == {k \in Subjects \X Tracts \X Nodes \X Metrics :
                   /\ k[1] = SubjectOrder[1] \/ k[2] \in second
                   /\ k[2] = TractOrder[1] \/ k[3] \in rows}
    IN [k \in has |->
          IF <<k[1], k[2], k[4]>> \in DOMAIN marks /\ k[3] \in marks[<<k[1], k[2], k[4]>>]
          THEN NaN
          ELSE <<Measure(k[1], k[2], k[3], k[4])>>]

Marks ==
    UNION { [S -> NanMasks] : S \in {T \in SUBSET AllSeries : Cardinality(T) <= MaxMissing} }

Tables ==
    { Table(second, rows, marks) : second \in SUBSET Tracts, rows \in ShortRows, marks \in Marks }

NoTransformCall ==
    [fn |-> "none", extrapolate |-> FALSE, add_bias_feature |-> FALSE, status |-> "none",
     X |-> <<>>, groups |-> <<>>, columns |-> NoFrame.columns, bias_index |-> None]

InitTransform ==
    /\ df \in Tables
    /\ env \in {"raises", "reindexes"}
    /\ x = NoArray
    /\ columns = NoFrame.columns
    /\ label_sets = <<>>
    /\ np_random = 0
    /\ beta_hat = <<>>
    /\ ret = NoTransformCall

Transform ==
    /\ ret.fn = "none"
    /\ \E extrapolate \in BOOLEAN, add_bias_feature \in BOOLEAN :
          \E r \in {transform(df, extrapolate, add_bias_feature, env)} :
             ret' = [fn |-> "transform", extrapolate |-> extrapolate,
                     add_bias_feature |-> add_bias_feature, status |-> r.status,
                     X |-> r.X, groups |-> r.groups, columns |-> r.columns,
                     bias_index |-> r.bias_index]
    /\ UNCHANGED <<x, columns, label_sets, np_random, beta_hat, df, env>>

NextTransform == Transform

SpecTransform == InitTransform /\ [][NextTransform]_vars

----------------------------------------------------------------------------
(* Properties of transform (checked under SpecTransform).                  *)

ValidKeys == {k \in DOMAIN df : ~IsNaN(df[k])}
SubjectsWithData == {k[1] : k \in ValidKeys}
TractsWithData == {k[2] : k \in ValidKeys}
NodesWithData == {k[3] : k \in ValidKeys}
MetricsWithData == {k[4] : k \in ValidKeys}

InputSubjects == {k[1] : k \in DOMAIN df}
InputTriples == {<<k[4], k[2], k[3]>> : k \in DOMAIN df}

NFeatures == NCols(ret.columns)
BiasWidth == IF ret.add_bias_feature THEN 1 ELSE 0

GroupsContaining(i) == {g \in 1..Len(ret.groups) : i \in Range(ret.groups[g])}

\* C2: the groups transform returns partition the column indices
\* 0..n_features-1: every index is in exactly one group, the bias index is
\* in none, and the indices of a group share their (metric, tractID).
C2_GroupsPartitionColumns ==
    (ret.fn = "transform" /\ ret.status = "ok")
    => /\ \A r \in 1..Len(ret.X) : Len(ret.X[r]) = NFeatures + BiasWidth
       /\ \A i \in 0..(NFeatures - 1) : Cardinality(GroupsContaining(i)) = 1
       /\ UNION {Range(ret.groups[g]) : g \in 1..Len(ret.groups)} = 0..(NFeatures - 1)
       /\ \A g \in 1..Len(ret.groups) :
             /\ Len(ret.groups[g]) = Cardinality(Range(ret.groups[g]))
             /\ \A i, j \in Range(ret.groups[g]) :
                   /\ FrameKey(ret.columns, i + 1)[1] = FrameKey(ret.columns, j + 1)[1]
                   /\ FrameKey(ret.columns, i + 1)[2] = FrameKey(ret.columns, j + 1)[2]
       /\ ret.bias_index # None => GroupsContaining(ret.bias_index[1]) = {}

\* transform has returned four groups (two metrics, two tracts) and a bias
\* column.
C2_Witness ==
    /\ ret.fn = "transform"
    /\ ret.status = "ok"
    /\ ret.add_bias_feature
    /\ Len(ret.groups) = 4
    /\ \A g \in 1..4 : Len(ret.groups[g]) = 3

\* Some feature column (a combination of the levels) has no valid value
\* for any subject.
HasEmptyColumn ==
    \E m \in MetricsWithData, t \in TractsWithData :
        ~\E k \in ValidKeys : k[4] = m /\ k[2] = t

\* The bias column as C5 has it: at bias_index, the number of feature
\* columns, and all ones; no bias column and no bias_index otherwise.
BiasAsClaimed(n_features) ==
    /\ \A r \in 1..Len(ret.X) : Len(ret.X[r]) = n_features + BiasWidth
    /\ ret.add_bias_feature
       => /\ ret.bias_index = Some(n_features)
          /\ \A r \in 1..Len(ret.X) : ret.X[r][n_features + 1] = <<1>>
    /\ ~ret.add_bias_feature => ret.bias_index = None

C6_NoMissingValueReturned ==
    ret.fn = "transform"
    => /\ HasEmptyColumn => (ret.status # "ok" /\ ret.X = <<>>)
       /\ ret.status = "ok"
          => \A r \in 1..Len(ret.X) : \A c \in 1..Len(ret.X[r]) : ~IsNaN(ret.X[r][c])

\* C7: under either policy, a missing node strictly between two valid
\* nodes of its series is filled with the linear interpolation between the
\* nearest valid neighbours a < n < b weighted by node id:
\* (v - va) * (b - a) = (vb - va) * (n - a).
C7_InteriorFillByNodePosition ==
    (ret.fn = "transform" /\ ret.status = "ok")
    => \A r \in 1..Len(ret.X) : \A c \in 1..NFeatures :
          LET key == FrameKey(ret.columns, c)
              s == Sorted(SubjectOrder, SubjectsWithData)[r]
              at(n) == Cell(df, s, key[2], n, key[1])
              before == {a \in Nodes : a < key[3] /\ ~IsNaN(at(a))}
              after == {b \in Nodes : b > key[3] /\ ~IsNaN(at(b))}
          IN (IsNaN(at(key[3])) /\ before # {} /\ after # {})
             => LET a == Max(before)
                    b == Min(after)
                IN (ret.X[r][c][1] - at(a)[1]) * (b - a) = (at(b)[1] - at(a)[1]) * (key[3] - a)

====
